---- MODULE Spec2Model ----
(***************************************************************************)
(* Order API of the ice-cream storefront backend: the five order routes,   *)
(* the health route, the start-up connection probe and the two stores      *)
(* (the document database and the in-memory fallback list memOrders).      *)
(*                                                                         *)
(* JSON values are tagged records ([t |-> "string", s |-> ...]); numbers   *)
(* are fixed-point hundredths (4.5 is 450); time is in milliseconds.       *)
(***************************************************************************)
EXTENDS Integers, Sequences, FiniteSets, TLC

VARIABLES
    connState,    \* the promise of mongoose.connect: "pending", "ok", "failed"
    dbConnected,  \* the process-wide flag the routes branch on
    memOrders,    \* the in-memory fallback list
    dbOrders,     \* the documents of the Order collection
    oidSeq,       \* how many ObjectIds the driver has handed out
    now,          \* the clock, in milliseconds
    served        \* history: the stores that have answered an order request

vars == <<connState, dbConnected, memOrders, dbOrders, oidSeq, now, served>>

----------------------------------------------------------------------------
(* Bounds *)

\* orders held by the two stores together
MaxOrders == 2
\* milliseconds the clock advances over a run
MaxTicks == 2

\* the clock's first value; 35 is "z" in base 36, so identifiers of one and
\* of two digits both occur
ClockStart == 35

----------------------------------------------------------------------------
(* JSON values and the JavaScript coercions the handlers apply to them *)

Undef == [t |-> "undefined"]
Null == [t |-> "null"]
NaN == [t |-> "NaN"]
Str(s) == [t |-> "string", s |-> s]
Num(n) == [t |-> "number", n |-> n]
EmptyObj == [t |-> "object"]

\* !v
Falsy(v) ==
    \/ v.t \in {"undefined", "null", "NaN"}
    \/ v.t = "string" /\ v.s = ""
    \/ v.t = "number" /\ v.n = 0

\* v.k where v is not undefined or null
Prop(v, k) == IF v.t = "object" /\ k \in DOMAIN v THEN v[k] ELSE Undef

DigitVal(c) ==
    CASE c = "0" -> 0 [] c = "1" -> 1 [] c = "2" -> 2 [] c = "3" -> 3
      [] c = "4" -> 4 [] c = "5" -> 5 [] c = "6" -> 6 [] c = "7" -> 7
      [] c = "8" -> 8 [] c = "9" -> 9 [] OTHER -> -1

\* the value of a string of decimal digits, -1 if it is empty or holds
\* anything else
RECURSIVE ParseDigits(_)
ParseDigits(s) ==
    IF Len(s) = 0 THEN -1
    ELSE LET d == DigitVal(SubSeq(s, Len(s), Len(s)))
         IN  IF d = -1 THEN -1
             ELSE IF Len(s) = 1 THEN d
             ELSE LET r == ParseDigits(SubSeq(s, 1, Len(s) - 1))
                  IN  IF r = -1 THEN -1 ELSE 10 * r + d

DotAt(s) == {i \in 1..Len(s) : SubSeq(s, i, i) = "."}

\* Number(s) of a string: "" is 0, a decimal literal (at most two
\* fraction digits here) its value, anything else NaN
ParseNumber(s) ==
    IF s = "" THEN Num(0)
    ELSE IF DotAt(s) = {} THEN
        LET d == ParseDigits(s) IN IF d = -1 THEN NaN ELSE Num(100 * d)
    ELSE IF Cardinality(DotAt(s)) > 1 THEN NaN
    ELSE LET i == CHOOSE j \in DotAt(s) : TRUE
             ip == SubSeq(s, 1, i - 1)
             fp == SubSeq(s, i + 1, Len(s))
             iv == IF ip = "" THEN 0 ELSE ParseDigits(ip)
             fv == IF fp = "" THEN 0
                   ELSE IF Len(fp) = 1 THEN 10 * ParseDigits(fp)
                   ELSE IF Len(fp) = 2 THEN ParseDigits(fp)
                   ELSE -1
         IN  IF (ip = "" /\ fp = "") \/ iv < 0 \/ fv < 0 THEN NaN
             ELSE Num(100 * iv + fv)

\* Number(v)
ToNumber(v) ==
    CASE v.t = "number" -> v
      [] v.t = "string" -> ParseNumber(v.s)
      [] v.t = "null" -> Num(0)
      [] OTHER -> NaN

IsNaN(v) == v.t = "NaN"

Digits36 ==
    <<"0", "1", "2", "3", "4", "5", "6", "7", "8", "9", "a", "b", "c", "d",
      "e", "f", "g", "h", "i", "j", "k", "l", "m", "n", "o", "p", "q", "r",
      "s", "t", "u", "v", "w", "x", "y", "z">>

\* n.toString(36)
RECURSIVE ToString36(_)
ToString36(n) ==
    IF n < 36 THEN Digits36[n + 1]
    ELSE ToString36(n \div 36) \o Digits36[(n % 36) + 1]

----------------------------------------------------------------------------
(* Request inputs *)

Scoop1 == [t |-> "object", flavor |-> Str("vanilla"), color |-> Str("white")]
Scoop2 == [t |-> "object", flavor |-> Str("mint"), color |-> Str("green")]
Cone1 == [t |-> "object", style |-> Str("waffle"), color |-> Str("brown")]
Sprinkles1 == [t |-> "object", level |-> Str("light")]
Address1 == [t |-> "object", street |-> Str("Main 1"), city |-> Str("X")]
AddressNoStreet == [t |-> "object", city |-> Str("Y")]
Customer1 == [t |-> "object", name |-> Str("A"), address |-> Address1]
Customer2 == [t |-> "object", name |-> Str("B"), address |-> AddressNoStreet]

BodyOk ==
    [t |-> "object", scoop |-> Scoop1, cone |-> Cone1, sprinkles |-> Sprinkles1,
     customer |-> Customer1, price |-> Str("4.50")]
\* carries a status and an _id of its own, and no street
BodyOkStatus ==
    [t |-> "object", scoop |-> Scoop2, cone |-> Cone1, sprinkles |-> Sprinkles1,
     customer |-> Customer2, price |-> Num(300), status |-> Str("done"),
     _id |-> Str("x")]

CreateBodies ==
    { BodyOk, BodyOkStatus,
      Undef,
      [t |-> "object", cone |-> Cone1, sprinkles |-> Sprinkles1,
       customer |-> Customer1, price |-> Str("4.50")],
      [BodyOk EXCEPT !.cone = Str("")],
      [BodyOk EXCEPT !.sprinkles = Null],
      [BodyOk EXCEPT !.customer = Undef],
      [BodyOk EXCEPT !.customer = Str("A")],
      [BodyOk EXCEPT !.customer = [t |-> "object", address |-> Address1]],
      [BodyOk EXCEPT !.customer = [t |-> "object", name |-> Str("A")]],
      [t |-> "object", scoop |-> Scoop1, cone |-> Cone1,
       sprinkles |-> Sprinkles1, customer |-> Customer1],
      [BodyOk EXCEPT !.price = Null],
      [BodyOk EXCEPT !.price = Str("abc")],
      [BodyOk EXCEPT !.price = Str("4.5.0")],
      [BodyOk EXCEPT !.price = EmptyObj] }

\* the last one carries fields besides status
StatusBodies ==
    { Undef,
      [t |-> "object", status |-> Str("")],
      [t |-> "object", status |-> Str("ready")],
      [t |-> "object", status |-> Str("ready"), price |-> Num(0),
       date |-> Num(0), _id |-> Str("x")] }

Clock == ClockStart..(ClockStart + MaxTicks)

\* the n-th ObjectId of the driver
Oid(n) == "oid" \o ToString36(n)

Range(s) == {s[i] : i \in 1..Len(s)}

----------------------------------------------------------------------------
(* Helpers *)

sanitizeOrderInput(body) ==
    LET b == IF Falsy(body) THEN EmptyObj ELSE body
    IN  [scoop |-> Prop(b, "scoop"), cone |-> Prop(b, "cone"),
         sprinkles |-> Prop(b, "sprinkles"), customer |-> Prop(b, "customer"),
         price |-> Prop(b, "price")]

\* isValidOrder with the customer.address test left out
isValidOrder_NoAddress(data) ==
    IF Falsy(data.scoop) \/ Falsy(data.cone) \/ Falsy(data.sprinkles) THEN FALSE
    ELSE IF Falsy(data.customer) \/ Falsy(Prop(data.customer, "name")) THEN FALSE
    ELSE IF \/ data.price.t = "undefined"
            \/ data.price.t = "null"
            \/ IsNaN(ToNumber(data.price)) THEN FALSE
    ELSE TRUE

isValidOrder(data) ==
    IF Falsy(data.scoop) \/ Falsy(data.cone) \/ Falsy(data.sprinkles) THEN FALSE
    ELSE IF \/ Falsy(data.customer)
            \/ Falsy(Prop(data.customer, "name"))
            \/ Falsy(Prop(data.customer, "address")) THEN FALSE
    ELSE IF \/ data.price.t = "undefined"
            \/ data.price.t = "null"
            \/ IsNaN(ToNumber(data.price)) THEN FALSE
    ELSE TRUE

\* orderPayload that leaves the status to the schema's default, which the
\* in-memory store does not apply
orderPayload_NoStatus(data, date) ==
    [scoop |-> data.scoop,
     cone |-> data.cone,
     sprinkles |-> data.sprinkles,
     customer |->
        [t |-> "object",
         name |-> Prop(data.customer, "name"),
         address |->
            [t |-> "object",
             street |-> Prop(Prop(data.customer, "address"), "street"),
             city |-> Prop(Prop(data.customer, "address"), "city")]],
     price |-> ToNumber(data.price),
     status |-> Undef,
     date |-> date]

orderPayload(data, date) ==
    [scoop |-> data.scoop,
     cone |-> data.cone,
     sprinkles |-> data.sprinkles,
     customer |->
        [t |-> "object",
         name |-> Prop(data.customer, "name"),
         address |->
            [t |-> "object",
             street |-> Prop(Prop(data.customer, "address"), "street"),
             city |-> Prop(Prop(data.customer, "address"), "city")]],
     price |-> ToNumber(data.price),
     status |-> Str("pending"),
     date |-> date]

\* { _id: id, ...payload }
WithId(id, p) ==
    [_id |-> id, scoop |-> p.scoop, cone |-> p.cone, sprinkles |-> p.sprinkles,
     customer |-> p.customer, price |-> p.price, status |-> p.status,
     date |-> p.date]

\* { status }: the spread of the stored order forgotten
WithStatus_Bare(o, status) == [_id |-> o._id, status |-> status]

\* { ...o, status, date: o.date + 1 }: the update restamps the order
WithStatus_Restamp(o, status) == [o EXCEPT !.status = status, !.date = o.date + 1]

\* { ...o, status }
WithStatus(o, status) == [o EXCEPT !.status = status]

\* Date.now().toString(36)
MemId(t) == ToString36(t)

\* findIndex with a test that every order passes (= for ===)
FindIndex_Any(orders, id) == IF Len(orders) = 0 THEN 0 ELSE 1

\* orders.findIndex(o => String(o._id) === String(id)), 0 for -1
FindIndex(orders, id) ==
    LET hits == {i \in 1..Len(orders) : orders[i]._id = id}
    IN  IF hits = {} THEN 0 ELSE CHOOSE i \in hits : \A j \in hits : i <= j

\* orders.splice(idx, 1)
Splice(orders, idx) ==
    SubSeq(orders, 1, idx - 1) \o SubSeq(orders, idx + 1, Len(orders))

\* the comparator turned round (a.date - b.date): oldest first
InsertAsc(s, o) ==
    LET before == {i \in 1..Len(s) : s[i].date <= o.date}
        k == IF before = {} THEN 0 ELSE CHOOSE i \in before : \A j \in before : j <= i
    IN  SubSeq(s, 1, k) \o <<o>> \o SubSeq(s, k + 1, Len(s))

\* s with o put behind every element whose date is not before o's
InsertDesc(s, o) ==
    LET before == {i \in 1..Len(s) : s[i].date >= o.date}
        k == IF before = {} THEN 0 ELSE CHOOSE i \in before : \A j \in before : j <= i
    IN  SubSeq(s, 1, k) \o <<o>> \o SubSeq(s, k + 1, Len(s))

\* [...orders].sort((a, b) => new Date(b.date) - new Date(a.date)): the
\* sort is stable
RECURSIVE SortDesc(_)
SortDesc(orders) ==
    IF orders = <<>> THEN <<>>
    ELSE InsertDesc(SortDesc(SubSeq(orders, 1, Len(orders) - 1)),
                    orders[Len(orders)])

IsDesc(s) == \A i \in 1..(Len(s) - 1) : s[i].date >= s[i + 1].date

\* Order.find().sort({ date: -1 }): the documents by date, newest first, in
\* any order among those of one date
DbSorted(docs) ==
    {s \in {[i \in 1..Len(docs) |-> docs[p[i]]] : p \in Permutations(1..Len(docs))} :
        IsDesc(s)}

----------------------------------------------------------------------------
(* Responses, and what a handler leaves behind *)

NoDoc == [t |-> "none"]

Response(code, msg, doc, docs) ==
    [code |-> code, msg |-> msg, doc |-> doc, docs |-> docs]

NotFound == Response(404, "Niet gevonden", NoDoc, <<>>)
ServerError == Response(500, "Serverfout", NoDoc, <<>>)

\* the state a handler reads
Cur ==
    [dbConnected |-> dbConnected, memOrders |-> memOrders,
     dbOrders |-> dbOrders, oidSeq |-> oidSeq, now |-> now]

\* a handler's outcome: its response and the state it leaves
Outcome(s, r, mem, db, oid, t) ==
    [res |-> r, memOrders |-> mem, dbOrders |-> db, oidSeq |-> oid, now |-> t]

\* the outcome of answering r from state s and writing nothing
Reply(s, r) == Outcome(s, r, s.memOrders, s.dbOrders, s.oidSeq, s.now)

\* the state s after a handler's outcome out
After(s, out) ==
    [s EXCEPT !.memOrders = out.memOrders, !.dbOrders = out.dbOrders,
              !.oidSeq = out.oidSeq, !.now = out.now]

----------------------------------------------------------------------------
(* The routes: each gives the outcomes of handling one request in state s. *)
(* In database mode the awaited driver call may also throw, which the      *)
(* route's catch answers with 500.  In in-memory mode a handler runs from  *)
(* its lookup to its write without an await.                               *)

\* GET /api/health
HealthRoute(s, readyState) ==
    {Reply(s, Response(200,
                       IF readyState = 1 THEN "connected" ELSE "not_connected",
                       NoDoc, <<>>))}

\* GET /api/orders
ListOrders(s) ==
    IF s.dbConnected
    THEN {Reply(s, Response(200, "", NoDoc, orders)) : orders \in DbSorted(s.dbOrders)}
         \cup {Reply(s, ServerError)}
    ELSE {Reply(s, Response(200, "", NoDoc, SortDesc(s.memOrders)))}

\* GET /api/orders/:id
GetOrder(s, id) ==
    IF s.dbConnected
    THEN LET idx == FindIndex(s.dbOrders, id)
         IN  {IF idx = 0 THEN Reply(s, NotFound)
              ELSE Reply(s, Response(200, "", s.dbOrders[idx], <<>>)),
              Reply(s, ServerError)}
    ELSE LET idx == FindIndex(s.memOrders, id)
         IN  {IF idx = 0 THEN Reply(s, NotFound)
              ELSE Reply(s, Response(200, "", s.memOrders[idx], <<>>))}

\* POST /api/orders; new Date() reads the clock at s.now, and Date.now()
\* reads it again in the same millisecond or the next
CreateOrder(s, body) ==
    LET data == sanitizeOrderInput(body)
    IN  IF ~isValidOrder(data)
        THEN {Reply(s, Response(400, "Alle velden zijn verplicht", NoDoc, <<>>))}
        ELSE LET payload == orderPayload(data, s.now)
             IN  IF s.dbConnected
                 THEN LET created == WithId(Oid(s.oidSeq + 1), payload)
                      IN  {Outcome(s, Response(201, "", created, <<>>), s.memOrders,
                                   Append(s.dbOrders, created), s.oidSeq + 1, s.now),
                           Reply(s, ServerError)}
                 ELSE {LET created == WithId(MemId(t), payload)
                       IN  Outcome(s, Response(201, "", created, <<>>),
                                   Append(s.memOrders, created), s.dbOrders,
                                   s.oidSeq, t) :
                       t \in {s.now, s.now + 1}}

\* POST and PATCH /api/orders/:id/status
updateStatusHandler(s, id, body) ==
    LET status == Prop(IF Falsy(body) THEN EmptyObj ELSE body, "status")
    IN  IF Falsy(status)
        THEN {Reply(s, Response(400, "status is verplicht", NoDoc, <<>>))}
        ELSE IF s.dbConnected
        THEN LET idx == FindIndex(s.dbOrders, id)
                 doc == WithStatus(s.dbOrders[idx], status)
             IN  {IF idx = 0 THEN Reply(s, NotFound)
                  ELSE Outcome(s, Response(200, "", doc, <<>>), s.memOrders,
                               [s.dbOrders EXCEPT ![idx] = doc], s.oidSeq, s.now),
                  Reply(s, ServerError)}
        ELSE LET idx == FindIndex(s.memOrders, id)
                 doc == WithStatus(s.memOrders[idx], status)
             IN  {IF idx = 0 THEN Reply(s, NotFound)
                  ELSE Outcome(s, Response(200, "", doc, <<>>),
                               [s.memOrders EXCEPT ![idx] = doc], s.dbOrders,
                               s.oidSeq, s.now)}

\* DELETE /api/orders/:id
DeleteOrder(s, id) ==
    IF s.dbConnected
    THEN LET idx == FindIndex(s.dbOrders, id)
         IN  {IF idx = 0 THEN Reply(s, NotFound)
              ELSE Outcome(s, Response(200, "ok", NoDoc, <<>>), s.memOrders,
                           Splice(s.dbOrders, idx), s.oidSeq, s.now),
              Reply(s, ServerError)}
    ELSE LET idx == FindIndex(s.memOrders, id)
         IN  {IF idx = 0 THEN Reply(s, NotFound)
              ELSE Outcome(s, Response(200, "ok", NoDoc, <<>>),
                           Splice(s.memOrders, idx), s.dbOrders, s.oidSeq, s.now)}

----------------------------------------------------------------------------
(* State machine *)

\* req.params.id: the identifier of a stored order, or one that no order has
ReqIds == {o._id : o \in Range(memOrders) \cup Range(dbOrders)} \cup {"nope"}

Init ==
    /\ connState = "pending"
    /\ dbConnected = FALSE
    /\ memOrders = <<>>
    /\ dbOrders = <<>>
    /\ oidSeq = 0
    /\ now = ClockStart
    /\ served = {}

\* mongoose.connect resolves
ConnectOk ==
    /\ connState = "pending"
    /\ connState' = "ok"
    /\ dbConnected' = TRUE
    /\ UNCHANGED <<memOrders, dbOrders, oidSeq, now, served>>

\* mongoose.connect rejects
ConnectFail ==
    /\ connState = "pending"
    /\ connState' = "failed"
    /\ dbConnected' = FALSE
    /\ UNCHANGED <<memOrders, dbOrders, oidSeq, now, served>>

\* a millisecond passes
Tick ==
    /\ now < ClockStart + MaxTicks
    /\ now' = now + 1
    /\ UNCHANGED <<connState, dbConnected, memOrders, dbOrders, oidSeq, served>>

\* a handler ends with outcome out
Handle(out) ==
    /\ Len(out.memOrders) + Len(out.dbOrders) <= MaxOrders
    /\ out.oidSeq <= MaxOrders
    /\ out.now \in Clock
    /\ memOrders' = out.memOrders
    /\ dbOrders' = out.dbOrders
    /\ oidSeq' = out.oidSeq
    /\ now' = out.now
    /\ UNCHANGED <<connState, dbConnected>>

\* an order route ends with outcome out
HandleOrder(out) ==
    /\ Handle(out)
    /\ served' = served \cup {IF dbConnected THEN "db" ELSE "mem"}

Health ==
    \E out \in HealthRoute(Cur, IF connState = "ok" THEN 1 ELSE 0) :
        Handle(out) /\ UNCHANGED served
List == \E out \in ListOrders(Cur) : HandleOrder(out)
Get == \E id \in ReqIds : \E out \in GetOrder(Cur, id) : HandleOrder(out)
Create == \E body \in CreateBodies : \E out \in CreateOrder(Cur, body) : HandleOrder(out)
Update ==
    \E id \in ReqIds : \E body \in StatusBodies :
        \E out \in updateStatusHandler(Cur, id, body) : HandleOrder(out)
Delete == \E id \in ReqIds : \E out \in DeleteOrder(Cur, id) : HandleOrder(out)

Requests ==
    \/ Health
    \/ List
    \/ Get
    \/ Create
    \/ Update
    \/ Delete

Next ==
    \/ ConnectOk
    \/ ConnectFail
    \/ Tick
    \/ Requests

Spec == Init /\ [][Next]_vars

\* the runs in which the database is never reached: every request is
\* answered from memOrders
MemNext ==
    \/ ConnectFail
    \/ Tick
    \/ Requests

MemSpec == Init /\ [][MemNext]_vars

----------------------------------------------------------------------------
(* Properties.  The routes are quantified over in every reachable state:   *)
(* a property of "every request" is a property of every outcome a route    *)
(* has there.                                                              *)

\* the store the routes use in state s
Store(s) == IF s.dbConnected THEN s.dbOrders ELSE s.memOrders
\* the store they leave alone
OtherStore(s) == IF s.dbConnected THEN s.memOrders ELSE s.dbOrders

Untouched(out) == out.memOrders = memOrders /\ out.dbOrders = dbOrders

\* a create payload that fails validation, as the specification words it
FailsValidation(body) ==
    LET field(k) == IF body.t = "object" /\ k \in DOMAIN body THEN body[k] ELSE Undef
        customer == field("customer")
        sub(k) == IF customer.t = "object" /\ k \in DOMAIN customer
                  THEN customer[k] ELSE Undef
    IN  \/ \E k \in {"scoop", "cone", "sprinkles", "customer"} : Falsy(field(k))
        \/ Falsy(sub("name"))
        \/ Falsy(sub("address"))
        \/ field("price").t \in {"undefined", "null"}
        \/ ToNumber(field("price")).t = "NaN"

\* the status an update-status body asks for, Undef if none
AskedStatus(body) ==
    IF body.t = "object" /\ "status" \in DOMAIN body THEN body.status ELSE Undef

HasId(orders, id) == \E i \in 1..Len(orders) : orders[i]._id = id

\* s without its k-th element
Without(s, k) == [i \in 1..(Len(s) - 1) |-> IF i < k THEN s[i] ELSE s[i + 1]]

\* how often o occurs in s
Count(s, o) == Cardinality({i \in 1..Len(s) : s[i] = o})

\* C1: a create request whose payload fails validation is answered 400 and
\* leaves both stores as they were.
C1_InvalidCreateRejected ==
    \A body \in CreateBodies :
        FailsValidation(body) =>
            \A out \in CreateOrder(Cur, body) :
                out.res.code = 400 /\ Untouched(out)

\* a store that holds orders, where a payload with an address and no name
\* is turned down
C1_Witness ==
    /\ Len(Store(Cur)) = 2
    /\ \E body \in CreateBodies :
          /\ FailsValidation(body)
          /\ ~Falsy(Prop(Prop(body, "customer"), "address"))
          /\ \E out \in CreateOrder(Cur, body) : out.res.code = 400

\* what a valid create does when it succeeds: 201, the returned order is
\* pending and is the one added to the store
CreatedPending(s, out) ==
    /\ out.res.code = 201
    /\ out.res.doc.status = Str("pending")
    /\ Store(After(s, out)) = Append(Store(s), out.res.doc)
    /\ OtherStore(After(s, out)) = OtherStore(s)

\* C2, as claimed: every create request with a valid payload is answered 201
\* and the returned and stored order has status "pending", whatever status
\* the body carried.
C2_ValidCreateIs201 ==
    \A body \in CreateBodies :
        ~FailsValidation(body) =>
            \A out \in CreateOrder(Cur, body) : CreatedPending(Cur, out)

\* C2, amended: ... or, in database mode, the driver call throws and the
\* answer is 500.
C2_ValidCreateIs201Or500 ==
    \A body \in CreateBodies :
        ~FailsValidation(body) =>
            \A out \in CreateOrder(Cur, body) :
                \/ CreatedPending(Cur, out)
                \/ dbConnected /\ out.res.code = 500

\* the order made from the body that carried status "done" is stored, pending
C2_Witness ==
    \E o \in Range(Store(Cur)) :
        /\ o.scoop = BodyOkStatus.scoop
        /\ BodyOkStatus.status = Str("done")
        /\ o.status = Str("pending")

\* C3: a get-by-id with the identifier of an order that was created and not
\* deleted returns 200 with that order (as it is stored: its status the
\* one set last).
C3_GetReturnsCreated ==
    \A o \in Range(memOrders) \cup Range(dbOrders) :
        \A out \in GetOrder(Cur, o._id) :
            out.res.code = 200 /\ out.res.doc = o

\* C4: no two orders of a store have the same identifier.
C4_UniqueIds ==
    /\ \A i, j \in 1..Len(memOrders) : i # j => memOrders[i]._id # memOrders[j]._id
    /\ \A i, j \in 1..Len(dbOrders) : i # j => dbOrders[i]._id # dbOrders[j]._id

\* C5: delete on an identifier no stored order has is answered 404; on the
\* identifier of a stored order it is answered 200, and a get-by-id with
\* that identifier right after it (no create in between) is answered 404.
C5_DeleteThenGet404 ==
    \A id \in ReqIds :
        \A out \in DeleteOrder(Cur, id) :
            IF ~HasId(Store(Cur), id) THEN out.res.code = 404
            ELSE /\ out.res.code = 200
                 /\ \A got \in GetOrder(After(Cur, out), id) : got.res.code = 404

\* what update-status does when the driver does not throw
UpdatedOne(s, out, id, status) ==
    IF ~HasId(Store(s), id)
    THEN /\ out.res.code = 404
         /\ After(s, out) = s
    ELSE /\ out.res.code = 200
         /\ OtherStore(After(s, out)) = OtherStore(s)
         /\ LET old == Store(s)
                new == Store(After(s, out))
            IN  /\ Len(new) = Len(old)
                /\ \E k \in 1..Len(old) :
                      /\ old[k]._id = id
                      /\ DOMAIN new[k] = DOMAIN old[k]
                      /\ new[k].status = status
                      /\ \A f \in DOMAIN old[k] \ {"status"} : new[k][f] = old[k][f]
                      /\ \A i \in 1..Len(old) : i # k => new[i] = old[i]
                      /\ out.res.doc = new[k]

C7_BackendNeverChanges == Cardinality(served) <= 1

\* what list-all does when the driver does not throw
ListedAll(s, out) ==
    /\ out.res.code = 200
    /\ Untouched(out)
    /\ Len(out.res.docs) = Len(Store(s))
    /\ \A o \in Range(Store(s)) \cup Range(out.res.docs) :
          Count(out.res.docs, o) = Count(Store(s), o)
    /\ \A i \in 1..(Len(out.res.docs) - 1) :
          out.res.docs[i].date >= out.res.docs[i + 1].date

\* C8, as claimed: list-all returns every order of the store exactly once,
\* newest first.
C8_ListSorted == \A out \in ListOrders(Cur) : ListedAll(Cur, out)

\* C8, amended: ... or, in database mode, the driver call throws and the
\* answer is 500.
C8_ListSortedOr500 ==
    \A out \in ListOrders(Cur) :
        \/ ListedAll(Cur, out)
        \/ dbConnected /\ out.res.code = 500

\* a store whose orders are not newest first, and its list, which is
C8_Witness ==
    /\ ~dbConnected
    /\ Len(memOrders) = 2
    /\ memOrders[1].date < memOrders[2].date
    /\ \E out \in ListOrders(Cur) :
          out.res.code = 200 /\ out.res.docs = <<memOrders[2], memOrders[1]>>

ImmutableFields == {"_id", "scoop", "cone", "sprinkles", "customer", "price", "date"}

\* every order of old is in new, in place, with its immutable fields
KeptInPlace(old, new) ==
    /\ Len(new) = Len(old)
    /\ \A i \in 1..Len(old) :
          /\ DOMAIN new[i] = DOMAIN old[i]
          /\ \A f \in ImmutableFields : new[i][f] = old[i][f]

\* C9: no request changes the identifier, scoop, cone, sprinkles, customer,
\* price or date of a stored order; an order leaves a store only through a
\* delete, one at a time; a status changes only through an update-status
\* that names the order's identifier.
C9_OrdersImmutable ==
    /\ \A out \in ListOrders(Cur) \cup UNION {GetOrder(Cur, id) : id \in ReqIds}
                    \cup UNION {CreateOrder(Cur, body) : body \in CreateBodies} :
          /\ SubSeq(out.memOrders, 1, Len(memOrders)) = memOrders
          /\ SubSeq(out.dbOrders, 1, Len(dbOrders)) = dbOrders
    /\ \A id \in ReqIds : \A body \in StatusBodies :
          \A out \in updateStatusHandler(Cur, id, body) :
              /\ KeptInPlace(memOrders, out.memOrders)
              /\ KeptInPlace(dbOrders, out.dbOrders)
              /\ \A i \in 1..Len(memOrders) :
                    out.memOrders[i].status # memOrders[i].status
                        => memOrders[i]._id = id
              /\ \A i \in 1..Len(dbOrders) :
                    out.dbOrders[i].status # dbOrders[i].status
                        => dbOrders[i]._id = id
    /\ \A id \in ReqIds :
          \A out \in DeleteOrder(Cur, id) :
              /\ \/ out.memOrders = memOrders
                 \/ \E k \in 1..Len(memOrders) : out.memOrders = Without(memOrders, k)
              /\ \/ out.dbOrders = dbOrders
                 \/ \E k \in 1..Len(dbOrders) : out.dbOrders = Without(dbOrders, k)

\* a document whose status was set after another was made: both still carry
\* the fields they were made with
C9_Witness ==
    /\ Len(dbOrders) = 2
    /\ dbOrders[1].status = Str("ready")
    /\ dbOrders[1].price = Num(450)
    /\ dbOrders[2].price = Num(300)
    /\ dbOrders[1].date < dbOrders[2].date

====
